---- MODULE Spec2Model ----
(***************************************************************************)
(* ParakeetWrapper._annotate (src/app.py): for every audio/video document  *)
(* of an MMIF the ASR result (text, word timestamps, segments) is turned   *)
(* into a view holding a text document, Tokens, TimeFrames, Alignments and *)
(* Sentences.                                                              *)
(*                                                                         *)
(* A Python str is modelled as a sequence of one-character strings, with   *)
(* zero-based offsets as in the code.  Seconds are exact decimals counted  *)
(* in ticks of 1/10000 s.  An annotation's long_id is <<view, position>>;  *)
(* the MMIF's own documents have long_id <<0, position>>.                  *)
(***************************************************************************)
EXTENDS Integers, Sequences, FiniteSets, TLC

VARIABLES
    documents,          \* mmif.documents: the at_type of each input document
    views,              \* mmif.views: each view is the sequence of its annotations
    model_cache,        \* self.model_cache: model name -> the model instance loaded
    downloads,          \* model name -> how often it was downloaded and loaded
    calls,              \* the number of _annotate calls made on the app so far
    pc,                 \* position of the _annotate call
    error,              \* the exception that left _annotate, or "none"
    srcdocs,            \* the documents the outer loop iterates over
    doc_i,              \* position of the outer loop in srcdocs
    result,             \* result: the Hypothesis of the current document
    raw_text,           \* raw_text
    word_i,             \* position of the word loop in result.words
    char_offset,        \* char_offset
    segment_token_ids,  \* segment_token_ids
    segment_idx,        \* segment_idx
    segments_offset     \* segments_offset

vars == <<documents, views, model_cache, downloads, calls, pc, error, srcdocs, doc_i, result,
          raw_text, word_i, char_offset, segment_token_ids, segment_idx,
          segments_offset>>

-----------------------------------------------------------------------------
(* Bounds of the checked inputs.                                           *)

MaxTextLen == 3
MaxWords == 3
MaxSegments == 2
MaxDocs == 2
MaxCalls == 3

-----------------------------------------------------------------------------
(* Strings.                                                                *)

Letters == {"g", "o"}
Chars == Letters \cup {" "}

RECURSIVE StrN(_)
StrN(n) ==
    IF n = 0 THEN {<<>>}
    ELSE LET shorter == StrN(n - 1)
         IN shorter \cup {Append(s, c) : s \in {t \in shorter : Len(t) = n - 1}, c \in Chars}

RECURSIVE SeqN(_, _)
SeqN(S, n) ==
    IF n = 0 THEN {<<>>}
    ELSE LET shorter == SeqN(S, n - 1)
         IN shorter \cup {Append(s, e) : s \in {t \in shorter : Len(t) = n - 1}, e \in S}

Last(s) == s[Len(s)]
Front(s) == SubSeq(s, 1, Len(s) - 1)

RECURSIVE LStrip(_)
LStrip(s) == IF s # <<>> /\ Head(s) = " " THEN LStrip(Tail(s)) ELSE s

RECURSIVE RStrip(_)
RStrip(s) == IF s # <<>> /\ Last(s) = " " THEN RStrip(Front(s)) ELSE s

\* str.strip()
Strip(s) == RStrip(LStrip(s))

\* s[i:i+len(sub)] == sub, i zero-based
OccursAt(s, sub, i) ==
    /\ i >= 0
    /\ i + Len(sub) <= Len(s)
    /\ SubSeq(s, i + 1, i + Len(sub)) = sub

SetMin(S) == CHOOSE m \in S : \A n \in S : m <= n

\* str.find(sub, start): the lowest index >= start where sub occurs, else -1
StrFind(s, sub, start) ==
    LET hits == {i \in start..Len(s) : OccursAt(s, sub, i)}
    IN IF hits = {} THEN -1 ELSE SetMin(hits)

\* raw_text.index(raw_token, char_offset); -1 stands for the ValueError
FindFromZero(text, raw_token, offset) == StrFind(text, raw_token, 0)
FindLast(text, raw_token, offset) ==
    LET hits == {i \in offset..Len(text) : OccursAt(text, raw_token, i)}
    IN IF hits = {} THEN -1 ELSE CHOOSE m \in hits : \A n \in hits : n <= m
TokStart(text, raw_token, offset) == StrFind(text, raw_token, offset)

TokEndOffByOne(tok_start, raw_token) == tok_start + Len(raw_token) + 1
TokEnd(tok_start, raw_token) == tok_start + Len(raw_token)

\* int(seconds * 1000): the product truncated toward zero.  With seconds in
\* ticks of 1/10000 s the product is ticks * 1000 / 10000.
ToMillisRounded(ticks) ==
    IF ticks >= 0 THEN (ticks * 1000 + 5000) \div 10000
    ELSE -((-ticks * 1000 + 5000) \div 10000)
ToMillis(ticks) ==
    IF ticks >= 0 THEN (ticks * 1000) \div 10000 ELSE -((-ticks * 1000) \div 10000)

-----------------------------------------------------------------------------
(* The MMIF: documents, views, annotations.                                *)

DocTypes == {"AudioDocument", "VideoDocument", "TextDocument"}

\* mmif.get_documents_by_type(at_type): the matching documents, in MMIF order
RECURSIVE DocsFrom(_, _, _)
DocsFrom(docs, at_type, i) ==
    IF i > Len(docs) THEN <<>>
    ELSE (IF docs[i] = at_type THEN <<i>> ELSE <<>>) \o DocsFrom(docs, at_type, i + 1)

get_documents_by_type(docs, at_type) == DocsFrom(docs, at_type, 1)

\* the documents the outer loop visits: the audio documents, then the video ones
SourceDocuments(docs) ==
    get_documents_by_type(docs, "AudioDocument") \o get_documents_by_type(docs, "VideoDocument")

DocId(d) == <<0, d>>

\* view.new_annotation / view.new_textdocument: the id the new annotation gets
NewId(v, anns) == <<v, Len(anns) + 1>>

\* lines 91-97: the new view with its text document and document-level Alignment
NewViewWithoutAlignment(v, srcdoc, text) ==
    << [type |-> "TextDocument", id |-> <<v, 1>>, text |-> text, lang |-> "en"] >>
NewView(v, srcdoc, text) ==
    << [type |-> "TextDocument", id |-> <<v, 1>>, text |-> text, lang |-> "en"],
       [type |-> "Alignment", id |-> <<v, 2>>, source |-> DocId(srcdoc), target |-> <<v, 1>>] >>

\* lines 110-131: the Token, the TimeFrame and their Alignment of one word
WordAnnotationsSelfAligned(v, anns, word_dict, tok_start, tok_end) ==
    LET n == Len(anns)
    IN anns \o
       << [type |-> "Token", id |-> <<v, n + 1>>, word |-> word_dict.word,
           start |-> tok_start, end |-> tok_end, document |-> <<v, 1>>],
          [type |-> "TimeFrame", id |-> <<v, n + 2>>, label |-> "speech",
           start |-> ToMillis(word_dict.start), end |-> ToMillis(word_dict.end)],
          [type |-> "Alignment", id |-> <<v, n + 3>>,
           source |-> <<v, n + 2>>, target |-> <<v, n + 2>>] >>
WordAnnotations(v, anns, word_dict, tok_start, tok_end) ==
    LET n == Len(anns)
    IN anns \o
       << [type |-> "Token", id |-> <<v, n + 1>>, word |-> word_dict.word,
           start |-> tok_start, end |-> tok_end, document |-> <<v, 1>>],
          [type |-> "TimeFrame", id |-> <<v, n + 2>>, label |-> "speech",
           start |-> ToMillis(word_dict.start), end |-> ToMillis(word_dict.end)],
          [type |-> "Alignment", id |-> <<v, n + 3>>,
           source |-> <<v, n + 2>>, target |-> <<v, n + 1>>] >>

\* lines 138-142: the Sentence of the segment just completed
SentenceAnnotation(v, anns, targets, text) ==
    Append(anns, [type |-> "Sentence", id |-> NewId(v, anns), targets |-> targets, text |-> text])

\* line 135: result.timestamp["segment"][segment_idx]['segment'].strip();
\* ok = FALSE stands for the IndexError of the list access
SegmentLookupClamped(segments, idx) ==
    IF idx < Len(segments) THEN [ok |-> TRUE, text |-> Strip(segments[idx + 1].segment)]
    ELSE [ok |-> TRUE, text |-> <<>>]
SegmentLookup(segments, idx) ==
    IF idx < Len(segments) THEN [ok |-> TRUE, text |-> Strip(segments[idx + 1].segment)]
    ELSE [ok |-> FALSE, text |-> <<>>]

\* line 144: segments_offset += len(cur_segment_text) + 1
NextSegmentsOffsetNoSpace(seg_offset, cur_segment_text) == seg_offset + Len(cur_segment_text)
NextSegmentsOffset(seg_offset, cur_segment_text) == seg_offset + Len(cur_segment_text) + 1

\* lines 98-101: the cursors a document starts with, whatever they were
KeepCursor(cursor) == cursor
ResetCursor(cursor) ==
    [char_offset |-> 0, segment_token_ids |-> <<>>, segment_idx |-> 0, segments_offset |-> 0]

\* line 137: the current segment is complete
SegmentCompleteNonStrict(offset, seg_offset, cur_segment_text) ==
    offset - seg_offset >= Len(cur_segment_text)
SegmentComplete(offset, seg_offset, cur_segment_text) ==
    offset - seg_offset > Len(cur_segment_text)

-----------------------------------------------------------------------------
(* The inputs: what model.transcribe returns, and the MMIF handed in.      *)

\* timestamps (start, end) in ticks of 1/10000 s: 1.2345 s to 2 s
WellFormedTimes == {<<12345, 20000>>}

\* start and end each negative, fractional or whole, in either order
TimeValues == {-15000, -5, 12345, 20000}
AnyTimes == TimeValues \X TimeValues

WordForms == {<<"g">>, <<"o">>, <<"g", "o">>}
WordDicts(Forms, Times) ==
    {[word |-> w, start |-> t[1], end |-> t[2]] : w \in Forms, t \in Times}

SegmentForms == {<<"g">>, <<"g", "o">>, <<" ", "o">>}
SegmentDicts(Forms) == {[segment |-> s] : s \in Forms}

ExampleTexts == {<<"g", "o", " ", "g", "o">>}
Texts == StrN(MaxTextLen) \cup ExampleTexts

\* the transcriptions of Spec: every text, word list and segment list in the bounds
Results ==
    [text : Texts,
     words : SeqN(WordDicts(WordForms, WellFormedTimes), MaxWords),
     segments : SeqN(SegmentDicts(SegmentForms), MaxSegments)]

\* the transcriptions of SpecTimes: one text, every timestamp
TimedResults ==
    [text : {<<"g", " ", "g">>},
     words : SeqN(WordDicts({<<"g">>}, AnyTimes), MaxWords),
     segments : {<<>>, <<[segment |-> <<"g">>], [segment |-> <<"g">>]>>}]

\* the transcriptions of SpecBatch: one text, which line 95 trims to "g o"; the
\* words found in it or not; segments supplied or not
BatchWords == {<<>>, <<<<"g">>, <<"o">>>>, <<<<"o">>, <<"g">>>>}
BatchResults ==
    [text : {<<" ", "g", " ", "o">>},
     words : {[i \in DOMAIN ws |-> [word |-> ws[i], start |-> 12345, end |-> 20000]] :
                ws \in BatchWords},
     segments : {<<>>, <<[segment |-> <<"g">>], [segment |-> <<"o">>]>>}]

NoResult == [text |-> <<>>, words |-> <<>>, segments |-> <<>>]

PARAKEET_MODEL_SIZE_MAP ==
    [s \in {"110m", "0.6b", "1.1b"} |->
        CASE s = "110m" -> "nvidia/parakeet-tdt_ctc-110m"
          [] s = "0.6b" -> "nvidia/parakeet-tdt-0.6b-v2"
          [] s = "1.1b" -> "nvidia/parakeet-tdt_ctc-1.1b"]

ModelNames == {PARAKEET_MODEL_SIZE_MAP[s] : s \in DOMAIN PARAKEET_MODEL_SIZE_MAP}

\* the modelSize parameter: its default, and its choices
DefaultModelSizes == {"0.6b"}
ModelSizeChoices == {"110m", "0.6b", "1.1b"}

-----------------------------------------------------------------------------
(* State after get_app(), with an MMIF about to be annotated.              *)

InitWith(DocLists) ==
    /\ documents \in DocLists
    /\ views = <<>>
    /\ model_cache = <<>>
    /\ downloads = [n \in ModelNames |-> 0]
    /\ calls = 1
    /\ pc = "start"
    /\ error = "none"
    /\ srcdocs = <<>>
    /\ doc_i = 0
    /\ result = NoResult
    /\ raw_text = <<>>
    /\ word_i = 0
    /\ char_offset = 0
    /\ segment_token_ids = <<>>
    /\ segment_idx = 0
    /\ segments_offset = 0

Init == InitWith({<<"AudioDocument">>})

\* an MMIF of up to MaxDocs documents of any type
BatchInit == InitWith(SeqN(DocTypes, MaxDocs))

-----------------------------------------------------------------------------
(* _annotate, one action per step of its two loops.                        *)

\* line 44: model_name not in self.model_cache
CacheAlwaysMiss(cache, model_name) == TRUE
CacheMiss(cache, model_name) == model_name \notin DOMAIN cache

\* line 54: self.model_cache[model_name] = instance
Store(cache, model_name, instance) ==
    [n \in DOMAIN cache \cup {model_name} |-> IF n = model_name THEN instance ELSE cache[n]]

\* lines 42-55: _get_model; the cache and the download counts it leaves.  Every
\* name of PARAKEET_MODEL_SIZE_MAP is a key of PARAKEET_MODEL_VERSIONS, so the
\* ValueError of line 46 is never raised.  The instance loaded by the k-th
\* download of a model is <<name, k>>.
get_model(cache, counts, model_size) ==
    LET model_name == PARAKEET_MODEL_SIZE_MAP[model_size]
    IN IF CacheMiss(cache, model_name)
       THEN [cache |-> Store(cache, model_name, <<model_name, counts[model_name] + 1>>),
             downloads |-> [counts EXCEPT ![model_name] = @ + 1]]
       ELSE [cache |-> cache, downloads |-> counts]

\* lines 69-73: load the model, list the audio and video documents
Call(ModelSizes) ==
    /\ pc = "start"
    /\ \E model_size \in ModelSizes :
         LET got == get_model(model_cache, downloads, model_size)
         IN model_cache' = got.cache /\ downloads' = got.downloads
    /\ srcdocs' = SourceDocuments(documents)
    /\ doc_i' = 1
    /\ pc' = "doc"
    /\ UNCHANGED <<documents, views, calls, error, result, raw_text, word_i, char_offset,
                   segment_token_ids, segment_idx, segments_offset>>

\* lines 72-101: the next document is transcribed; its view, text document and
\* document-level Alignment are created and the cursors reset
NextDocument(Transcriptions) ==
    /\ pc = "doc"
    /\ doc_i <= Len(srcdocs)
    /\ \E r \in Transcriptions :
         /\ result' = r
         /\ raw_text' = Strip(r.text)
         /\ views' = Append(views, NewView(Len(views) + 1, srcdocs[doc_i], Strip(r.text)))
    /\ LET cursor == ResetCursor([char_offset |-> char_offset,
                                  segment_token_ids |-> segment_token_ids,
                                  segment_idx |-> segment_idx,
                                  segments_offset |-> segments_offset])
       IN /\ char_offset' = cursor.char_offset
          /\ segment_token_ids' = cursor.segment_token_ids
          /\ segment_idx' = cursor.segment_idx
          /\ segments_offset' = cursor.segments_offset
    /\ word_i' = 1
    /\ pc' = "word"
    /\ UNCHANGED <<documents, model_cache, downloads, calls, error, srcdocs, doc_i>>

\* line 146: no document is left
Return ==
    /\ pc = "doc"
    /\ doc_i > Len(srcdocs)
    /\ pc' = "returned"
    /\ UNCHANGED <<documents, views, model_cache, downloads, calls, error, srcdocs, doc_i, result, raw_text,
                   word_i, char_offset, segment_token_ids, segment_idx, segments_offset>>

\* lines 102-145: one iteration of the word loop
WordStep ==
    /\ pc = "word"
    /\ word_i <= Len(result.words)
    /\ LET word_dict == result.words[word_i]
           raw_token == word_dict.word
           tok_start == TokStart(raw_text, raw_token, char_offset)
           tok_end == TokEnd(tok_start, raw_token)
           v == Len(views)
           anns == WordAnnotations(v, views[v], word_dict, tok_start, tok_end)
           token_id == NewId(v, views[v])
           ids == Append(segment_token_ids, token_id)
           seg == SegmentLookup(result.segments, segment_idx)
       IN IF tok_start = -1
          THEN \* line 106 raises ValueError
               /\ pc' = "raised"
               /\ error' = "ValueError"
               /\ UNCHANGED <<views, word_i, char_offset, segment_token_ids,
                              segment_idx, segments_offset>>
          ELSE IF ~seg.ok
          THEN \* line 135 raises IndexError, after the word's annotations
               /\ pc' = "raised"
               /\ error' = "IndexError"
               /\ views' = [views EXCEPT ![v] = anns]
               /\ char_offset' = tok_end
               /\ segment_token_ids' = ids
               /\ UNCHANGED <<word_i, segment_idx, segments_offset>>
          ELSE IF SegmentComplete(tok_end, segments_offset, seg.text)
          THEN /\ views' = [views EXCEPT ![v] = SentenceAnnotation(v, anns, ids, seg.text)]
               /\ char_offset' = tok_end
               /\ segment_idx' = segment_idx + 1
               /\ segments_offset' = NextSegmentsOffset(segments_offset, seg.text)
               /\ segment_token_ids' = <<>>
               /\ word_i' = word_i + 1
               /\ UNCHANGED <<pc, error>>
          ELSE /\ views' = [views EXCEPT ![v] = anns]
               /\ char_offset' = tok_end
               /\ segment_token_ids' = ids
               /\ word_i' = word_i + 1
               /\ UNCHANGED <<pc, error, segment_idx, segments_offset>>
    /\ UNCHANGED <<documents, model_cache, downloads, calls, srcdocs, doc_i, result, raw_text>>

\* line 102: the word list is exhausted; on to the next document
EndWords ==
    /\ pc = "word"
    /\ word_i > Len(result.words)
    /\ doc_i' = doc_i + 1
    /\ pc' = "doc"
    /\ UNCHANGED <<documents, views, model_cache, downloads, calls, error, srcdocs, result, raw_text, word_i,
                   char_offset, segment_token_ids, segment_idx, segments_offset>>

\* the app is handed another MMIF: the next _annotate call starts with fresh
\* locals; self.model_cache is kept
NewRequest(DocLists) ==
    /\ pc \in {"returned", "raised"}
    /\ calls < MaxCalls
    /\ calls' = calls + 1
    /\ documents' \in DocLists
    /\ views' = <<>>
    /\ pc' = "start"
    /\ error' = "none"
    /\ srcdocs' = <<>>
    /\ doc_i' = 0
    /\ result' = NoResult
    /\ raw_text' = <<>>
    /\ word_i' = 0
    /\ char_offset' = 0
    /\ segment_token_ids' = <<>>
    /\ segment_idx' = 0
    /\ segments_offset' = 0
    /\ UNCHANGED <<model_cache, downloads>>

Next ==
    \/ Call(DefaultModelSizes)
    \/ NextDocument(Results)
    \/ WordStep
    \/ EndWords
    \/ Return

Spec == Init /\ [][Next]_vars

\* one document, the timestamps varied
TimesNext ==
    \/ Call(DefaultModelSizes)
    \/ NextDocument(TimedResults)
    \/ WordStep
    \/ EndWords
    \/ Return

SpecTimes == Init /\ [][TimesNext]_vars

\* several documents in one call
BatchNext ==
    \/ Call(DefaultModelSizes)
    \/ NextDocument(BatchResults)
    \/ WordStep
    \/ EndWords
    \/ Return

SpecBatch == BatchInit /\ [][BatchNext]_vars

\* several calls on one app, each with any model size and several documents
CallsNext ==
    \/ Call(ModelSizeChoices)
    \/ NextDocument(BatchResults)
    \/ WordStep
    \/ EndWords
    \/ Return
    \/ NewRequest(SeqN(DocTypes, MaxDocs))

SpecCalls == BatchInit /\ [][CallsNext]_vars

-----------------------------------------------------------------------------
(* What is read off the MMIF.                                              *)

OfType(anns, t) == SelectSeq(anns, LAMBDA a : a.type = t)
Range(seq) == {seq[i] : i \in DOMAIN seq}

Tokens(v) == OfType(views[v], "Token")
TimeFrames(v) == OfType(views[v], "TimeFrame")
Sentences(v) == OfType(views[v], "Sentence")
\* the Alignments of a view after its document-level one
WordAlignments(v) == Tail(OfType(views[v], "Alignment"))
ViewText(v) == views[v][1].text

\* the view made for document d, if any
ViewsOf(d) ==
    {v \in DOMAIN views :
        \E i \in DOMAIN views[v] :
            /\ views[v][i].type = "Alignment"
            /\ views[v][i].source = DocId(d)}

CurView == Len(views)

\* the word loop of the document last started has run to its end
DocumentDone == pc \in {"doc", "returned"} /\ doc_i > 1
\* ... or has been left by an exception
DocumentEnded == DocumentDone \/ pc = "raised"

SentencesHolding(v, token_id) ==
    {k \in DOMAIN Sentences(v) : token_id \in Range(Sentences(v)[k].targets)}

EachTokenInOneSentence(v) ==
    \A i \in DOMAIN Tokens(v) : Cardinality(SentencesHolding(v, Tokens(v)[i].id)) = 1

RECURSIVE JoinWithSpace(_)
JoinWithSpace(strs) ==
    IF strs = <<>> THEN <<>>
    ELSE IF Len(strs) = 1 THEN strs[1]
    ELSE strs[1] \o <<" ">> \o JoinWithSpace(Tail(strs))

SegmentTexts == [i \in DOMAIN result.segments |-> Strip(result.segments[i].segment)]
WordTexts == [i \in DOMAIN result.words |-> result.words[i].word]

-----------------------------------------------------------------------------
(* The claims.                                                             *)

\* C1: once the word loop of a document has completed without raising, every
\* Token of its view is in the targets of exactly one Sentence.
C1_EveryTokenInExactlyOneSentence ==
    DocumentDone => EachTokenInOneSentence(CurView)

\* exactly two segments that, joined by one space, are the text, and words that,
\* joined by one space, are the text too
TwoSegmentsCovered ==
    /\ Len(result.segments) = 2
    /\ JoinWithSpace(SegmentTexts) = raw_text
    /\ JoinWithSpace(WordTexts) = raw_text

\* C2: two segments that, joined by one space, are the text, and words that
\* cover the text, give exactly two Sentences with every Token in exactly one.
C2_BoundaryFlush ==
    (DocumentDone /\ TwoSegmentsCovered) =>
        /\ Len(Sentences(CurView)) = 2
        /\ EachTokenInOneSentence(CurView)

\* C3: when a word is not found at or after the cursor (ValueError), nothing
\* made for that document is left in the MMIF.
C3_NothingEmittedOnMiss ==
    (pc = "raised" /\ error = "ValueError") => ViewsOf(srcdocs[doc_i]) = {}

CountsMatch(v) ==
    /\ Len(Tokens(v)) = Len(result.words)
    /\ Len(TimeFrames(v)) = Len(result.words)
Paired(v) ==
    /\ \A i \in DOMAIN Tokens(v) : Tokens(v)[i].word = result.words[i].word
    /\ Len(WordAlignments(v)) = Len(Tokens(v))
    /\ \A i \in DOMAIN Tokens(v) :
         Cardinality({k \in DOMAIN WordAlignments(v) :
                        /\ WordAlignments(v)[k].source = TimeFrames(v)[i].id
                        /\ WordAlignments(v)[k].target = Tokens(v)[i].id}) = 1

\* C4, for all inputs (also those on which the word loop raises): when the
\* processing of a document has ended, its Tokens and its TimeFrames are as many
\* as its words, the Tokens in word order, the i-th TimeFrame aligned to the
\* i-th Token by exactly one Alignment.
C4_CountsForAllInputs ==
    DocumentEnded => CountsMatch(CurView) /\ Paired(CurView)

\* C4, for the inputs on which the word loop completes without raising: the
\* Tokens and the TimeFrames of the document are as many as its words, the
\* Tokens in word order, the i-th TimeFrame aligned to the i-th Token by exactly
\* one Alignment.
C4_CountsWhenCompleted ==
    DocumentDone => CountsMatch(CurView) /\ Paired(CurView)
C4_Witness ==
    DocumentDone /\ Len(result.words) >= 2 /\ Len(Tokens(CurView)) >= 2

TokensInOrder ==
    \A v \in DOMAIN views : \A i \in DOMAIN Tokens(v) :
        i > 1 => Tokens(v)[i].start >= Tokens(v)[i - 1].end

\* C5: within a document the cursor never decreases, and every Token starts at
\* or after the end of the Token before it.
C5_MonotonicCursor ==
    /\ []TokensInOrder
    /\ [][pc = "word" => char_offset' >= char_offset]_vars
C5_Witness ==
    /\ pc = "word"
    /\ Len(Tokens(CurView)) >= 2
    /\ Tokens(CurView)[2].start > Tokens(CurView)[1].end
    /\ char_offset = Tokens(CurView)[2].end

\* C6: every Token lies inside the text and spans exactly its surface form:
\* 0 <= start <= end <= len(text) and text[start:end] == word.
C6_OffsetCorrectness ==
    \A v \in DOMAIN views : \A i \in DOMAIN Tokens(v) :
        LET t == Tokens(v)[i]
        IN /\ 0 <= t.start
           /\ t.start <= t.end
           /\ t.end <= Len(ViewText(v))
           /\ SubSeq(ViewText(v), t.start + 1, t.end) = t.word
C6_Witness ==
    views # <<>> /\ \E i \in DOMAIN Tokens(CurView) :
        Tokens(CurView)[i].start > 0 /\ Len(Tokens(CurView)[i].word) = 2

\* word occurs in text at the zero-based index j
MatchesAt(text, word, j) ==
    j + Len(word) <= Len(text) /\ \A k \in 1..Len(word) : text[j + k] = word[k]
\* a word step that adds a Token (whether or not it then raises at line 135)
NewTokenAtFirstOccurrence ==
    (pc = "word" /\ views' # views) =>
        LET t == Last(OfType(views'[CurView], "Token"))
        IN /\ t.word = result.words[word_i].word
           /\ t.start >= char_offset
           /\ MatchesAt(raw_text, t.word, t.start)
           /\ \A j \in char_offset..(t.start - 1) : ~MatchesAt(raw_text, t.word, j)
GoGo ==
    /\ raw_text = <<"g", "o", " ", "g", "o">>
    /\ WordTexts = << <<"g", "o">>, <<"g", "o">> >>
    /\ word_i > 2
GoGoStarts ==
    GoGo => Tokens(CurView)[1].start = 0 /\ Tokens(CurView)[2].start = 3

\* C7: the start chosen for a word is the smallest index at or after the cursor
\* where the word occurs in the text; "go go" with the words "go", "go" gives
\* the starts 0 and 3.
C7_RepeatedWord ==
    /\ []GoGoStarts
    /\ [][NewTokenAtFirstOccurrence]_vars
C7_Witness ==
    GoGo /\ Len(Tokens(CurView)) = 2 /\ Tokens(CurView)[2].start = 3

\* C8: when one document of a batch fails, every other audio/video document
\* of the MMIF still gets its view.
C8_FailureIsolated ==
    pc = "raised" =>
        \A i \in DOMAIN srcdocs : i # doc_i => ViewsOf(srcdocs[i]) # {}

\* C9: a word processed while segment_idx has reached the number of segments
\* ends the call with an exception; the call does not go on or return.
C9_SegmentExhaustionRaises ==
    [][(pc = "word" /\ word_i <= Len(result.words) /\ segment_idx >= Len(result.segments))
          => (pc' = "raised" /\ error' \in {"IndexError", "ValueError"})]_vars
C9_Witness ==
    /\ pc = "raised"
    /\ error = "IndexError"
    /\ segment_idx = Len(result.segments)
    /\ segment_idx > 0

\* C10: no TimeFrame has a negative start or an end before its start (a word
\* record with such timestamps is rejected, not turned into a TimeFrame).
C10_NoMalformedTimeFrame ==
    \A v \in DOMAIN views : \A i \in DOMAIN TimeFrames(v) :
        /\ TimeFrames(v)[i].start >= 0
        /\ TimeFrames(v)[i].end >= TimeFrames(v)[i].start

\* m is seconds * 1000 cut toward zero, the seconds given in ticks of 1/10000 s
TruncatedMillis(ticks, m) ==
    IF ticks >= 0 THEN m >= 0 /\ 10 * m <= ticks /\ ticks < 10 * (m + 1)
    ELSE m <= 0 /\ 10 * m >= ticks /\ ticks > 10 * (m - 1)

\* C11: every TimeFrame has the label "speech" and its start and end are the
\* word's start and end in seconds times 1000, cut toward zero (1.2345 s gives
\* 1234 ms); so a word with start <= end gets a TimeFrame with start <= end.
C11_MillisecondScaling ==
    pc \in {"word", "raised", "doc", "returned"} /\ views # <<>> =>
        \A i \in DOMAIN TimeFrames(CurView) :
            LET f == TimeFrames(CurView)[i]
                w == result.words[i]
            IN /\ f.label = "speech"
               /\ TruncatedMillis(w.start, f.start)
               /\ TruncatedMillis(w.end, f.end)
               /\ (w.start = 12345 => f.start = 1234)
               /\ (w.start <= w.end => f.start <= f.end)
C11_Witness ==
    /\ views # <<>>
    /\ \E i \in DOMAIN TimeFrames(CurView) :
         /\ result.words[i].start = 12345
         /\ result.words[i].end = -5
         /\ TimeFrames(CurView)[i].start = 1234
         /\ TimeFrames(CurView)[i].end = 0

\* the cursors and the annotations of view v after the word loop, started on
\* st, has processed word i of transcription r (lines 102-145)
WordOutcome(v, text, r, st, i) ==
    LET word_dict == r.words[i]
        raw_token == word_dict.word
        tok_start == TokStart(text, raw_token, st.char_offset)
        tok_end == TokEnd(tok_start, raw_token)
        anns == WordAnnotations(v, st.anns, word_dict, tok_start, tok_end)
        ids == Append(st.segment_token_ids, NewId(v, st.anns))
        seg == SegmentLookup(r.segments, st.segment_idx)
    IN IF tok_start = -1 THEN [st EXCEPT !.error = "ValueError"]
       ELSE IF ~seg.ok
       THEN [st EXCEPT !.error = "IndexError", !.anns = anns,
                       !.char_offset = tok_end, !.segment_token_ids = ids]
       ELSE IF SegmentComplete(tok_end, st.segments_offset, seg.text)
       THEN [st EXCEPT !.anns = SentenceAnnotation(v, anns, ids, seg.text),
                       !.char_offset = tok_end,
                       !.segment_token_ids = <<>>,
                       !.segment_idx = @ + 1,
                       !.segments_offset = NextSegmentsOffset(@, seg.text)]
       ELSE [st EXCEPT !.anns = anns, !.char_offset = tok_end, !.segment_token_ids = ids]

\* the outcome of the first k words of r on a view that holds only its text
\* document and its document-level Alignment, from the cursors (0, empty, 0, 0);
\* a word that raises ends the run
RECURSIVE ExpectedRun(_, _, _, _)
ExpectedRun(v, srcdoc, r, k) ==
    IF k = 0
    THEN [anns |-> NewView(v, srcdoc, Strip(r.text)), error |-> "none", char_offset |-> 0,
          segment_token_ids |-> <<>>, segment_idx |-> 0, segments_offset |-> 0]
    ELSE LET before == ExpectedRun(v, srcdoc, r, k - 1)
         IN IF before.error # "none" THEN before
            ELSE WordOutcome(v, Strip(r.text), r, before, k)

\* the state of the document being processed, as ExpectedRun records it
ActualRun ==
    [anns |-> views[CurView], error |-> error, char_offset |-> char_offset,
     segment_token_ids |-> segment_token_ids, segment_idx |-> segment_idx,
     segments_offset |-> segments_offset]

\* the words of the current document processed so far, a raising one included
WordsProcessed ==
    IF pc = "raised" THEN word_i
    ELSE IF word_i > Len(result.words) THEN Len(result.words) ELSE word_i - 1

\* C12: whatever was processed before, in this call or an earlier one, the
\* annotations of the current document's view and the cursors are those that
\* its transcription alone gives when run from the cursors (0, empty, 0, 0)
\* (the view's number, which prefixes every annotation id, apart).
C12_OutputDependsOnTranscriptionOnly ==
    (pc \in {"word", "raised"} \/ DocumentDone) /\ views # <<>> =>
        ActualRun = ExpectedRun(CurView, views[CurView][2].source[2], result, WordsProcessed)

\* a second document of a later call, completed with a Sentence, after an
\* earlier call left its cursors advanced
C12_Witness ==
    /\ calls >= 2
    /\ pc = "doc"
    /\ doc_i = 3
    /\ Len(views) = 2
    /\ Len(Tokens(1)) = 2
    /\ Len(Sentences(2)) >= 1
    /\ Len(Tokens(2)) = 2

\* the documents of srcdocs whose processing has begun
DocumentsStarted ==
    IF pc = "start" THEN 0
    ELSE IF pc \in {"word", "raised"} THEN doc_i
    ELSE doc_i - 1

IsTrimmed(text) == text = <<>> \/ (text[1] # " " /\ Last(text) # " ")

\* the Alignments of view v whose source is a document of the MMIF
DocumentAlignments(v) ==
    SelectSeq(OfType(views[v], "Alignment"), LAMBDA a : a.source[1] = 0)

\* view v holds one text document, trimmed, and one document-level Alignment,
\* from document d to that text document
GroundedIn(v, d) ==
    /\ Len(OfType(views[v], "TextDocument")) = 1
    /\ IsTrimmed(OfType(views[v], "TextDocument")[1].text)
    /\ Len(DocumentAlignments(v)) = 1
    /\ DocumentAlignments(v)[1].source = DocId(d)
    /\ DocumentAlignments(v)[1].target = OfType(views[v], "TextDocument")[1].id

\* C13: every audio/video document whose processing has begun has exactly one
\* view, which holds exactly one text document with the trimmed transcript and
\* exactly one document-level Alignment from the document to that text document,
\* whatever the word list (the empty one included); no other view is made, and
\* when the call returns every audio/video document has its view.
C13_DocumentLevelGrounding ==
    /\ Len(views) = DocumentsStarted
    /\ \A j \in 1..DocumentsStarted :
         /\ Cardinality(ViewsOf(srcdocs[j])) = 1
         /\ \A v \in ViewsOf(srcdocs[j]) : GroundedIn(v, srcdocs[j])
    /\ pc \in {"word", "raised"} => ViewText(CurView) = Strip(result.text)
    /\ pc = "returned" => DocumentsStarted = Len(srcdocs)

\* a second document whose transcription has surrounding whitespace and no
\* words has been processed: its view holds the two annotations only
C13_Witness ==
    /\ pc = "doc"
    /\ doc_i = 3
    /\ result.words = <<>>
    /\ result.text # raw_text
    /\ Len(views) = 2
    /\ Len(views[2]) = 2
    /\ GroundedIn(2, srcdocs[2])

\* where segment k (0-based) begins in the segments joined by single spaces
RECURSIVE SegmentStart(_, _)
SegmentStart(segments, k) ==
    IF k = 0 THEN 0
    ELSE SegmentStart(segments, k - 1) + Len(Strip(segments[k].segment)) + 1

\* the segments joined by single spaces are the text, and so are the words
SegmentsAndWordsCoverText ==
    /\ JoinWithSpace(SegmentTexts) = raw_text
    /\ JoinWithSpace(WordTexts) = raw_text

\* the annotation of view v that a target id names
Target(v, id) == views[v][id[2]]

\* C14: when the segments joined by single spaces are the text and the words
\* cover it in order, every Token in the targets of the Sentence emitted for
\* segment k lies within segment k's range of the text.
C14_SentenceMembershipMatchesSegment ==
    (views # <<>> /\ pc \in {"word", "raised", "doc", "returned"} /\ SegmentsAndWordsCoverText) =>
        \A k \in DOMAIN Sentences(CurView) :
            \A t \in DOMAIN Sentences(CurView)[k].targets :
                LET token == Target(CurView, Sentences(CurView)[k].targets[t])
                    from == SegmentStart(result.segments, k - 1)
                IN /\ from <= token.start
                   /\ token.end <= from + Len(SegmentTexts[k])

SegmentBookkeeping ==
    (views # <<>> /\ pc \in {"word", "raised", "doc", "returned"}) =>
        /\ Len(Sentences(CurView)) = segment_idx
        /\ segment_idx <= Len(result.segments)
        /\ \A k \in DOMAIN Sentences(CurView) :
             Sentences(CurView)[k].text = Strip(result.segments[k].segment)
        /\ segments_offset = SegmentStart(result.segments, segment_idx)

\* C15: after any number of word steps the Sentences emitted are as many as
\* segment_idx, the k-th carries the trimmed text of the k-th segment,
\* segments_offset is the sum over the segments below segment_idx of their
\* trimmed length plus one, and no word step lowers segment_idx.
C15_SegmentBookkeeping ==
    /\ []SegmentBookkeeping
    /\ [][pc = "word" => segment_idx' >= segment_idx]_vars

\* two segments closed, the second one trimmed of its leading space
C15_Witness ==
    /\ pc = "word"
    /\ segment_idx = 2
    /\ Len(Sentences(CurView)) = 2
    /\ result.segments[2].segment = <<" ", "o">>
    /\ Sentences(CurView)[2].text = <<"o">>
    /\ segments_offset = 4

\* a word step that raises nothing
WordProcessed == pc = "word" /\ pc' = "word" /\ word_i' = word_i + 1

\* the Token id the step appended: the first annotation it added to the view
NewTokenId == views'[CurView][Len(views[CurView]) + 1].id

\* segments[segment_idx], trimmed, as it is before the step
CurSegmentText == Strip(result.segments[segment_idx + 1].segment)

\* the Sentences the step added to the view
SentencesEmitted == Len(OfType(views'[CurView], "Sentence")) - Len(Sentences(CurView))

BoundaryStep ==
    IF char_offset' - segments_offset > Len(CurSegmentText)
    THEN /\ SentencesEmitted = 1
         /\ Last(views'[CurView]).type = "Sentence"
         /\ Last(views'[CurView]).targets = Append(segment_token_ids, NewTokenId)
         /\ Last(views'[CurView]).text = CurSegmentText
         /\ segment_token_ids' = <<>>
         /\ segment_idx' = segment_idx + 1
    ELSE /\ SentencesEmitted = 0
         /\ segment_token_ids' = Append(segment_token_ids, NewTokenId)
         /\ segment_idx' = segment_idx
         /\ segments_offset' = segments_offset

\* C16: a word step emits a Sentence and empties segment_token_ids if and only
\* if the cursor it leaves, less segments_offset, is strictly greater than the
\* length of the current segment's text; otherwise segment_idx and
\* segments_offset are unchanged and segment_token_ids has only the new Token
\* id appended; no step emits more than one Sentence.
C16_BoundaryTestPerWord ==
    [][WordProcessed => BoundaryStep]_vars

\* the first word left its segment open, the second one closed it: one Sentence
\* with both Tokens, and segment_token_ids emptied
C16_Witness ==
    /\ pc = "word"
    /\ word_i = 3
    /\ segment_idx = 1
    /\ char_offset > segments_offset
    /\ segment_token_ids = <<>>
    /\ Len(Sentences(CurView)) = 1
    /\ Len(Sentences(CurView)[1].targets) = 2

\* every model name was downloaded at most once, and is in the cache, with the
\* instance of its one download, exactly when it was
LoadedAtMostOnce ==
    \A n \in ModelNames :
        /\ downloads[n] <= 1
        /\ n \in DOMAIN model_cache <=> downloads[n] = 1
        /\ n \in DOMAIN model_cache => model_cache[n] = <<n, 1>>

\* a request for a size whose model is cached leaves cache and download counts
\* as they are, and the instance it returns (line 55) is the cached one
HitReturnsCached ==
    \A model_size \in ModelSizeChoices :
        LET n == PARAKEET_MODEL_SIZE_MAP[model_size]
            got == get_model(model_cache, downloads, model_size)
        IN n \in DOMAIN model_cache =>
               /\ got.cache = model_cache
               /\ got.downloads = downloads
               /\ got.cache[n] = model_cache[n]

\* no step replaces or removes an entry, and a step downloads only a model
\* that is not in the cache
EntriesKept ==
    /\ \A n \in DOMAIN model_cache :
         n \in DOMAIN model_cache' /\ model_cache'[n] = model_cache[n]
    /\ \A n \in ModelNames :
         downloads'[n] # downloads[n] =>
             /\ n \notin DOMAIN model_cache
             /\ downloads'[n] = downloads[n] + 1
             /\ n \in DOMAIN model_cache'

\* C17: over any sequence of _annotate calls on one app, each model name is
\* downloaded and loaded at most once, a request for a size whose model is in
\* model_cache gets the cached instance without a download, and an entry of
\* model_cache is never replaced or removed.
C17_ModelCache ==
    /\ [](LoadedAtMostOnce /\ HitReturnsCached)
    /\ [][EntriesKept]_vars

\* the third call has got its model, and the three calls have between them
\* asked for two sizes: one of the requests was served from the cache
C17_Witness ==
    /\ calls = 3
    /\ pc = "doc"
    /\ Cardinality(DOMAIN model_cache) = 2
    /\ \A n \in DOMAIN model_cache : downloads[n] = 1

====
